---- MODULE Spec2Model ----
(***************************************************************************)
(* Source-encoding resolution of grun4py.py (port_Python3): BOM            *)
(* detection, PEP 263 declaration scan of the first two lines, alias       *)
(* normalisation, BOM/declaration conflict detection and decoding.         *)
(*                                                                         *)
(* Bytes, characters and code points are natural numbers; byte strings,    *)
(* text and encoding names are sequences of them ("utf-8" is               *)
(* <<117,116,102,45,56>>).  A file position is the number of bytes         *)
(* already consumed, so the next byte read at position p is data[p+1].     *)
(***************************************************************************)
EXTENDS Naturals, Sequences, FiniteSets

(***************************************************************************)
(* Bounds of the explored inputs.                                          *)
(***************************************************************************)
MaxLines == 3      \* lines of an input file (the scanner looks at two)
MaxNameLen == 4    \* length of the generated encoding names

(***************************************************************************)
(* class Encodings                                                         *)
(***************************************************************************)
UTF8 == <<117, 116, 102, 45, 56>>          \* "utf-8"
UTF8_BOM == <<239, 187, 191>>
UTF32_BE_BOM == <<0, 0, 254, 255>>
UTF32_LE_BOM == <<255, 254, 0, 0>>
UTF16_BE_BOM == <<254, 255>>
UTF16_LE_BOM == <<255, 254>>
MAX_BOM_LENGTH == 4
MAX_ASCII == 127

LF == 10                \* ord("\n")
CR == 13                \* ord("\r")
ScanLineLimit == 2      \* for _ in range(2)

(***************************************************************************)
(* Helpers standing for Python built-ins.                                  *)
(***************************************************************************)
Min(a, b) == IF a <= b THEN a ELSE b

\* bytes.startswith / f.read(n) / str.endswith
StartsWith(s, p) == Len(s) >= Len(p) /\ SubSeq(s, 1, Len(p)) = p
ReadHeader(data, n) == SubSeq(data, 1, Min(n, Len(data)))
EndsWith(s, p) == Len(s) >= Len(p) /\ SubSeq(s, Len(s) - Len(p) + 1, Len(s)) = p

\* str.lower on one character, and on a string
LowerChar(c) == IF c \in 65..90 THEN c + 32 ELSE c
Lower(s) == [i \in 1..Len(s) |-> LowerChar(s[i])]

\* str.replace(ch, "")
Remove(s, ch) == SelectSeq(s, LAMBDA c : c # ch)

\* str.removesuffix
RemoveSuffix(s, p) == IF Len(p) > 0 /\ EndsWith(s, p) THEN SubSeq(s, 1, Len(s) - Len(p)) ELSE s

\* pathlib.Path(file_path).name : the last component of the path
PathName(file_path) == file_path[Len(file_path)]

(***************************************************************************)
(* Errors.  An exception is the record of its format string and of the     *)
(* values the format string interpolates: name (a file's display name, ""  *)
(* when the message has none), enc (an encoding name, <<>> when the        *)
(* message has none) and msg (a literal detail).                           *)
(***************************************************************************)
NoError == [fmt |-> "", name |-> "", enc |-> <<>>, msg |-> ""]

bomError(file_path, msg) ==
    [fmt |-> "Invalid BOM encoding for '{name}': {msg}",
     name |-> PathName(file_path), enc |-> <<>>, msg |-> msg]

conflictError(file_path) ==
    [fmt |-> "Encoding problem for '{name}': {UTF8} BOM",
     name |-> PathName(file_path), enc |-> UTF8, msg |-> ""]

decodeError(encoding_name, ex) ==
    [fmt |-> "Failed to decode file with encoding '{encoding_name}': {ex}",
     name |-> "", enc |-> encoding_name, msg |-> ex]

\* str() of the UnicodeDecodeError of Python's utf-8 decoder
unicodeDecodeError(reason) ==
    [fmt |-> "'{encoding}' codec can't decode byte: {reason}",
     name |-> "", enc |-> UTF8, msg |-> reason]

(***************************************************************************)
(* Grun4py.ENCODING_MAP                                                    *)
(***************************************************************************)
ENCODING_MAP_ITEMS ==
    {  <<<<117, 116, 102, 56, 115, 105, 103>>, <<117, 116, 102, 45, 56>>>>,   \* 'utf8sig': 'utf-8'
       <<<<117, 116, 102, 56>>, <<117, 116, 102, 45, 56>>>>,   \* 'utf8': 'utf-8'
       <<<<117, 116, 102>>, <<117, 116, 102, 45, 56>>>>,   \* 'utf': 'utf-8'
       <<<<117, 116, 102, 49, 54, 108, 101>>, <<117, 116, 102, 45, 49, 54, 45, 108, 101>>>>,   \* 'utf16le': 'utf-16-le'
       <<<<117, 116, 102, 49, 54>>, <<117, 116, 102, 45, 49, 54, 45, 108, 101>>>>,   \* 'utf16': 'utf-16-le'
       <<<<117, 99, 115, 50>>, <<117, 116, 102, 45, 49, 54, 45, 108, 101>>>>,   \* 'ucs2': 'utf-16-le'
       <<<<117, 99, 115, 50, 108, 101>>, <<117, 116, 102, 45, 49, 54, 45, 108, 101>>>>,   \* 'ucs2le': 'utf-16-le'
       <<<<108, 97, 116, 105, 110, 49>>, <<108, 97, 116, 105, 110, 45, 49>>>>,   \* 'latin1': 'latin-1'
       <<<<108, 97, 116, 105, 110>>, <<108, 97, 116, 105, 110, 45, 49>>>>,   \* 'latin': 'latin-1'
       <<<<105, 115, 111, 56, 56, 53, 57, 49>>, <<108, 97, 116, 105, 110, 45, 49>>>>,   \* 'iso88591': 'latin-1'
       <<<<105, 115, 111, 56, 56, 53, 57>>, <<108, 97, 116, 105, 110, 45, 49>>>>,   \* 'iso8859': 'latin-1'
       <<<<99, 112, 56, 49, 57>>, <<108, 97, 116, 105, 110, 45, 49>>>>,   \* 'cp819': 'latin-1'
       <<<<97, 115, 99, 105, 105>>, <<97, 115, 99, 105, 105>>>>,   \* 'ascii': 'ascii'
       <<<<117, 115, 97, 115, 99, 105, 105>>, <<97, 115, 99, 105, 105>>>>,   \* 'usascii': 'ascii'
       <<<<97, 110, 115, 105, 120, 51, 52, 49, 57, 54, 56>>, <<97, 115, 99, 105, 105>>>>,   \* 'ansix341968': 'ascii'
       <<<<99, 112, 51, 54, 55>>, <<97, 115, 99, 105, 105>>>>,   \* 'cp367': 'ascii'
       <<<<98, 105, 110, 97, 114, 121>>, <<108, 97, 116, 105, 110, 45, 49>>>>    \* 'binary': 'latin-1'
    }

ENCODING_MAP ==
    [k \in {p[1] : p \in ENCODING_MAP_ITEMS} |->
        (CHOOSE p \in ENCODING_MAP_ITEMS : p[1] = k)[2]]

\* dict.get(key, default)
MapGet(map, key, default) == IF key \in DOMAIN map THEN map[key] ELSE default

(***************************************************************************)
(* Grun4py.isUTF8                                                          *)
(***************************************************************************)
isUTF8(enc) == Lower(Remove(Remove(enc, 45), 95)) = <<117, 116, 102, 56>>

(***************************************************************************)
(* Grun4py.normalizeEncoding                                               *)
(***************************************************************************)
\* normalizeEncoding with the "_" separator left in the key
normalizeEncoding_keepUnderscore(enc) ==
    IF enc = <<>> THEN enc
    ELSE LET normalized ==
                 RemoveSuffix(Remove(Remove(Lower(enc), 45), 32),
                              <<99, 111, 100, 101, 99>>)
         IN  MapGet(ENCODING_MAP, normalized, enc)

\* normalizeEncoding falling back to the key instead of the raw name
normalizeEncoding_returnKey(enc) ==
    IF enc = <<>> THEN enc
    ELSE LET normalized ==
                 RemoveSuffix(Remove(Remove(Remove(Lower(enc), 95), 45), 32),
                              <<99, 111, 100, 101, 99>>)
         IN  MapGet(ENCODING_MAP, normalized, normalized)

normalizeEncoding(enc) ==
    IF enc = <<>> THEN enc
    ELSE LET normalized ==
                 RemoveSuffix(Remove(Remove(Remove(Lower(enc), 95), 45), 32),
                              <<99, 111, 100, 101, 99>>)      \* "codec"
         IN  MapGet(ENCODING_MAP, normalized, enc)

\* Grun4py.COMMENT_REGEX: start, any run of [ \t\f], then either the end of
\* the line or a "#" followed by anything.
\* Grun4py.ENCODING_REGEX: start, any run of [ \t\f], "#", a lazy run of
\* anything, "coding", ":" or "=", any run of [ \t], and the captured token
\* of one or more of [-_.a-zA-Z0-9].
\* Both are matchers over a line; a line holds no "\n".
BlankChars == {32, 9, 12}          \* [ \t\f]
SpaceTab == {32, 9}                \* [ \t]
TokenChars == {45, 95, 46} \cup (97..122) \cup (65..90) \cup (48..57)

\* the first index >= i whose character is outside cs (Len+1 if none)
SkipWhile(line, i, cs) ==
    LET rest == { j \in i..Len(line) : line[j] \notin cs }
    IN  IF rest # {} THEN CHOOSE j \in rest : \A k \in rest : j <= k
        ELSE IF i > Len(line) THEN i
        ELSE Len(line) + 1

COMMENT_REGEX_match(line) ==
    LET i == SkipWhile(line, 1, BlankChars)
    IN  i > Len(line) \/ line[i] = 35

\* "coding" [:=] [ \t]* token  matches at index p
DeclAt(line, p) ==
    /\ p + 7 <= Len(line)
    /\ SubSeq(line, p, p + 5) = <<99, 111, 100, 105, 110, 103>>
    /\ line[p + 6] \in {58, 61}
    /\ LET q == SkipWhile(line, p + 7, SpaceTab)
       IN  q <= Len(line) /\ line[q] \in TokenChars

\* the lazy run: the leftmost index >= p where the rest of the pattern
\* matches, 0 if there is none
FindDecl(line, p) ==
    LET hits == { j \in p..Len(line) : DeclAt(line, j) }
    IN  IF hits = {} THEN 0 ELSE CHOOSE j \in hits : \A k \in hits : j <= k

\* m.group(1), <<>> when there is no match
ENCODING_REGEX_group1(line) ==
    LET i == SkipWhile(line, 1, BlankChars)
    IN  IF i > Len(line) \/ line[i] # 35 THEN <<>>
        ELSE LET p == FindDecl(line, i + 1)
             IN  IF p = 0 THEN <<>>
                 ELSE LET q == SkipWhile(line, p + 7, SpaceTab)
                      IN  SubSeq(line, q, SkipWhile(line, q, TokenChars) - 1)

(***************************************************************************)
(* Grun4py.extractEncodingFromLine                                         *)
(***************************************************************************)
extractEncodingFromLine(line) ==
    LET g == ENCODING_REGEX_group1(line)
    IN  IF g = <<>> THEN <<>> ELSE normalizeEncoding(g)

(***************************************************************************)
(* Grun4py.readAsciiLine: none is the None result, eof tells that the      *)
(* loop ended on an empty read, pos is the file position afterwards.  The  *)
(* loop reads bytes until the first byte that is "\n" or above MAX_ASCII   *)
(* (at index stop) or until the read is empty, and appends every byte      *)
(* read before that except "\r".                                           *)
(***************************************************************************)
AsciiNotLF == (0..MAX_ASCII) \ {LF}

\* readAsciiLine dropping "\r" only right before "\n"
readAsciiLine_keepInnerCR(data, pos) ==
    LET stop == SkipWhile(data, pos + 1, AsciiNotLF)
        raw == SubSeq(data, pos + 1, stop - 1)
    IN  IF stop > Len(data)
        THEN [none |-> FALSE, line |-> raw,
              pos |-> IF pos >= Len(data) THEN pos ELSE Len(data), eof |-> TRUE]
        ELSE IF data[stop] > MAX_ASCII
        THEN [none |-> TRUE, line |-> <<>>, pos |-> stop, eof |-> FALSE]
        ELSE [none |-> FALSE,
              line |-> IF Len(raw) > 0 /\ raw[Len(raw)] = CR
                       THEN SubSeq(raw, 1, Len(raw) - 1) ELSE raw,
              pos |-> stop, eof |-> FALSE]

\* readAsciiLine giving None when the stream ends inside a line
readAsciiLine_eofNone(data, pos) ==
    LET stop == SkipWhile(data, pos + 1, AsciiNotLF)
    IN  IF stop > Len(data)
        THEN [none |-> TRUE, line |-> <<>>,
              pos |-> IF pos >= Len(data) THEN pos ELSE Len(data), eof |-> TRUE]
        ELSE IF data[stop] > MAX_ASCII
        THEN [none |-> TRUE, line |-> <<>>, pos |-> stop, eof |-> FALSE]
        ELSE [none |-> FALSE, line |-> Remove(SubSeq(data, pos + 1, stop - 1), CR),
              pos |-> stop, eof |-> FALSE]

\* readAsciiLine skipping the bytes above MAX_ASCII instead of giving None
readAsciiLine_skipNonAscii(data, pos) ==
    LET stop == SkipWhile(data, pos + 1, (0..255) \ {LF})
        kept == SelectSeq(SubSeq(data, pos + 1, stop - 1),
                          LAMBDA c : c # CR /\ c <= MAX_ASCII)
    IN  IF stop > Len(data)
        THEN [none |-> FALSE, line |-> kept,
              pos |-> IF pos >= Len(data) THEN pos ELSE Len(data), eof |-> TRUE]
        ELSE [none |-> FALSE, line |-> kept, pos |-> stop, eof |-> FALSE]

readAsciiLine(data, pos) ==
    LET stop == SkipWhile(data, pos + 1, AsciiNotLF)
    IN  IF stop > Len(data)
        THEN [none |-> FALSE, line |-> Remove(SubSeq(data, pos + 1, Len(data)), CR),
              pos |-> IF pos >= Len(data) THEN pos ELSE Len(data), eof |-> TRUE]
        ELSE IF data[stop] > MAX_ASCII
        THEN [none |-> TRUE, line |-> <<>>, pos |-> stop, eof |-> FALSE]
        ELSE [none |-> FALSE, line |-> Remove(SubSeq(data, pos + 1, stop - 1), CR),
              pos |-> stop, eof |-> FALSE]

(***************************************************************************)
(* Grun4py.detectEncodingFromComments: value is the returned name, lines   *)
(* the results of the readAsciiLine calls, pos the final file position.    *)
(***************************************************************************)
\* the scan loop going on to the next line after a line that is no comment
RECURSIVE scanLoop_noBreak(_, _, _, _)
scanLoop_noBreak(data, pos, remaining, lines) ==
    IF remaining = 0
    THEN [value |-> <<>>, pos |-> pos, lines |-> lines]
    ELSE LET r == readAsciiLine(data, pos)
             read == Append(lines, r)
         IN  IF r.none
             THEN [value |-> <<>>, pos |-> r.pos, lines |-> read]
             ELSE IF COMMENT_REGEX_match(r.line)
             THEN LET enc == extractEncodingFromLine(r.line)
                  IN  IF enc # <<>>
                      THEN [value |-> enc, pos |-> r.pos, lines |-> read]
                      ELSE scanLoop_noBreak(data, r.pos, remaining - 1, read)
             ELSE scanLoop_noBreak(data, r.pos, remaining - 1, read)

RECURSIVE scanLoop(_, _, _, _)
scanLoop(data, pos, remaining, lines) ==
    IF remaining = 0
    THEN [value |-> <<>>, pos |-> pos, lines |-> lines]
    ELSE LET r == readAsciiLine(data, pos)
             read == Append(lines, r)
         IN  IF r.none
             THEN [value |-> <<>>, pos |-> r.pos, lines |-> read]
             ELSE IF COMMENT_REGEX_match(r.line)
             THEN LET enc == extractEncodingFromLine(r.line)
                  IN  IF enc # <<>>
                      THEN [value |-> enc, pos |-> r.pos, lines |-> read]
                      ELSE scanLoop(data, r.pos, remaining - 1, read)
             ELSE [value |-> <<>>, pos |-> r.pos, lines |-> read]

detectEncodingFromComments(data, has_bom) ==
    LET start_pos == IF has_bom THEN Len(UTF8_BOM) ELSE 0
    IN  scanLoop(data, start_pos, ScanLineLimit, <<>>)

(***************************************************************************)
(* Grun4py.detectUTF8BOM                                                   *)
(***************************************************************************)
\* detectUTF8BOM testing the two-byte BOMs before the four-byte ones
detectUTF8BOM_utf16First(file_path, data) ==
    LET header == ReadHeader(data, MAX_BOM_LENGTH)
    IN  IF StartsWith(header, UTF8_BOM)
        THEN [raised |-> FALSE, value |-> TRUE, error |-> NoError]
        ELSE IF StartsWith(header, UTF16_BE_BOM)
        THEN [raised |-> TRUE, value |-> FALSE, error |-> bomError(file_path, "UTF-16 BE BOM")]
        ELSE IF StartsWith(header, UTF16_LE_BOM)
        THEN [raised |-> TRUE, value |-> FALSE, error |-> bomError(file_path, "UTF-16 LE BOM")]
        ELSE IF StartsWith(header, UTF32_BE_BOM)
        THEN [raised |-> TRUE, value |-> FALSE, error |-> bomError(file_path, "UTF-32 BE BOM")]
        ELSE IF StartsWith(header, UTF32_LE_BOM)
        THEN [raised |-> TRUE, value |-> FALSE, error |-> bomError(file_path, "UTF-32 LE BOM")]
        ELSE [raised |-> FALSE, value |-> FALSE, error |-> NoError]

detectUTF8BOM(file_path, data) ==
    LET header == ReadHeader(data, MAX_BOM_LENGTH)
    IN  IF StartsWith(header, UTF8_BOM)
        THEN [raised |-> FALSE, value |-> TRUE, error |-> NoError]
        ELSE IF StartsWith(header, UTF32_BE_BOM)
        THEN [raised |-> TRUE, value |-> FALSE, error |-> bomError(file_path, "UTF-32 BE BOM")]
        ELSE IF StartsWith(header, UTF32_LE_BOM)
        THEN [raised |-> TRUE, value |-> FALSE, error |-> bomError(file_path, "UTF-32 LE BOM")]
        ELSE IF StartsWith(header, UTF16_BE_BOM)
        THEN [raised |-> TRUE, value |-> FALSE, error |-> bomError(file_path, "UTF-16 BE BOM")]
        ELSE IF StartsWith(header, UTF16_LE_BOM)
        THEN [raised |-> TRUE, value |-> FALSE, error |-> bomError(file_path, "UTF-16 LE BOM")]
        ELSE [raised |-> FALSE, value |-> FALSE, error |-> NoError]

(***************************************************************************)
(* Grun4py.resolveFinalEncoding                                            *)
(***************************************************************************)
\* resolveFinalEncoding without the test that a declaration is present
resolveFinalEncoding_noEmptyTest(file_path, has_bom, comment_encoding) ==
    LET has_conflict == has_bom /\ ~isUTF8(comment_encoding)
    IN  IF has_conflict
        THEN [raised |-> TRUE, value |-> <<>>, error |-> conflictError(file_path)]
        ELSE [raised |-> FALSE,
              value |-> IF comment_encoding # <<>> THEN comment_encoding ELSE UTF8,
              error |-> NoError]

resolveFinalEncoding(file_path, has_bom, comment_encoding) ==
    LET has_conflict ==
            comment_encoding # <<>> /\ has_bom /\ ~isUTF8(comment_encoding)
    IN  IF has_conflict
        THEN [raised |-> TRUE, value |-> <<>>, error |-> conflictError(file_path)]
        ELSE [raised |-> FALSE,
              value |-> IF comment_encoding # <<>> THEN comment_encoding ELSE UTF8,
              error |-> NoError]

(***************************************************************************)
(* Python's strict utf-8 decoder (open(..., encoding="utf-8"), errors     *)
(* strict): well-formed sequences of one to four bytes give one code      *)
(* point each, anything else is a UnicodeDecodeError.                      *)
(***************************************************************************)
\* the length of the sequence a lead byte starts, 0 for an invalid lead byte
Utf8SeqLen(b) ==
    IF b <= 127 THEN 1
    ELSE IF b \in 194..223 THEN 2
    ELSE IF b \in 224..239 THEN 3
    ELSE IF b \in 240..244 THEN 4
    ELSE 0

\* the bytes allowed right after lead byte b
Utf8Second(b) ==
    IF b = 224 THEN 160..191
    ELSE IF b = 237 THEN 128..159
    ELSE IF b = 240 THEN 144..191
    ELSE IF b = 244 THEN 128..143
    ELSE 128..191

Utf8TailOk(data, i, n) ==
    /\ i + n - 1 <= Len(data)
    /\ data[i + 1] \in Utf8Second(data[i])
    /\ \A k \in 2..(n - 1) : data[i + k] \in 128..191

Utf8CodePoint(data, i, n) ==
    IF n = 1 THEN data[i]
    ELSE IF n = 2 THEN (data[i] - 192) * 64 + (data[i + 1] - 128)
    ELSE IF n = 3 THEN (data[i] - 224) * 4096 + (data[i + 1] - 128) * 64 + (data[i + 2] - 128)
    ELSE (data[i] - 240) * 262144 + (data[i + 1] - 128) * 4096
             + (data[i + 2] - 128) * 64 + (data[i + 3] - 128)

\* the indices of a sequence, in order
Indices(q) == [i \in 1..Len(q) |-> i]

\* a lead byte is any byte that is no continuation byte
Utf8IsLead(b) == b \notin 128..191
Utf8Leads(data) == SelectSeq(Indices(data), LAMBDA i : Utf8IsLead(data[i]))

\* the sequence starting at the lead byte at i is well formed and is
\* followed by the end of the data or by another lead byte
Utf8SeqOk(data, i) ==
    LET n == Utf8SeqLen(data[i])
    IN  /\ n > 0
        /\ n > 1 => Utf8TailOk(data, i, n)
        /\ i + n <= Len(data) => Utf8IsLead(data[i + n])

Utf8Decode(data) ==
    LET leads == Utf8Leads(data)
        bad == { i \in 1..Len(data) :
                    \/ i = 1 /\ ~Utf8IsLead(data[i])
                    \/ Utf8IsLead(data[i]) /\ ~Utf8SeqOk(data, i) }
    IN  IF bad = {}
        THEN [ok |-> TRUE,
              text |-> [k \in 1..Len(leads) |->
                          Utf8CodePoint(data, leads[k], Utf8SeqLen(data[leads[k]]))],
              reason |-> ""]
        ELSE [ok |-> FALSE, text |-> <<>>,
              reason |-> "ill-formed byte sequence"]

(***************************************************************************)
(* Text mode with the default newline=None (open(file_path, "r", ...)):    *)
(* universal newlines, "\r\n" and a lone "\r" are read as "\n".            *)
(***************************************************************************)
\* the "\n" of a "\r\n" pair is dropped and every "\r" becomes "\n"
TranslateNewlines(text) ==
    LET kept == SelectSeq(Indices(text),
                          LAMBDA i : ~(text[i] = LF /\ i > 1 /\ text[i - 1] = CR))
    IN  [k \in 1..Len(kept) |-> IF text[kept[k]] = CR THEN LF ELSE text[kept[k]]]

\* with open(file_path, "r", encoding="utf-8") as f: return f.read()
ReadTextUtf8(data) ==
    LET d == Utf8Decode(data)
    IN  IF d.ok THEN [ok |-> TRUE, text |-> TranslateNewlines(d.text), reason |-> ""]
        ELSE d

(***************************************************************************)
(* codecs.decode(data, encoding_name) for the codecs the resolved names of *)
(* the explored files can select: latin-1, ascii and utf-16-le; any other  *)
(* name here is one Python has no codec for (LookupError).                 *)
(***************************************************************************)
LATIN1 == <<108, 97, 116, 105, 110, 45, 49>>                 \* "latin-1"
ASCII == <<97, 115, 99, 105, 105>>                           \* "ascii"
UTF16LE == <<117, 116, 102, 45, 49, 54, 45, 108, 101>>       \* "utf-16-le"

\* the 16-bit units of the data, little endian
Utf16Units(data) == [k \in 1..(Len(data) \div 2) |-> data[2 * k - 1] + 256 * data[2 * k]]
IsHighSurrogate(u) == u \in 55296..56319
IsLowSurrogate(u) == u \in 56320..57343

Utf16LeDecode(data) ==
    LET units == Utf16Units(data)
        n == Len(units)
        bad == { k \in 1..n :
                    \/ IsHighSurrogate(units[k]) /\ ~(k < n /\ IsLowSurrogate(units[k + 1]))
                    \/ IsLowSurrogate(units[k]) /\ ~(k > 1 /\ IsHighSurrogate(units[k - 1])) }
        firsts == SelectSeq(Indices(units), LAMBDA k : ~IsLowSurrogate(units[k]))
    IN  IF Len(data) % 2 = 1
        THEN [ok |-> FALSE, text |-> <<>>, reason |-> "truncated data"]
        ELSE IF bad # {}
        THEN [ok |-> FALSE, text |-> <<>>, reason |-> "illegal UTF-16 surrogate"]
        ELSE [ok |-> TRUE,
              text |-> [j \in 1..Len(firsts) |->
                          LET u == units[firsts[j]]
                          IN  IF IsHighSurrogate(u)
                              THEN 65536 + (u - 55296) * 1024 + (units[firsts[j] + 1] - 56320)
                              ELSE u],
              reason |-> ""]

codecs_decode(data, encoding_name) ==
    IF encoding_name = LATIN1
    THEN [ok |-> TRUE, text |-> data, reason |-> ""]
    ELSE IF encoding_name = ASCII
    THEN IF \E i \in 1..Len(data) : data[i] > 127
         THEN [ok |-> FALSE, text |-> <<>>, reason |-> "ordinal not in range(128)"]
         ELSE [ok |-> TRUE, text |-> data, reason |-> ""]
    ELSE IF encoding_name = UTF16LE
    THEN Utf16LeDecode(data)
    ELSE [ok |-> FALSE, text |-> <<>>, reason |-> "unknown encoding"]

(***************************************************************************)
(* Grun4py.readFileWithEncoding                                            *)
(***************************************************************************)
readFileWithEncoding(data, encoding_name) ==
    IF isUTF8(encoding_name)
    THEN LET d == ReadTextUtf8(data)
         IN  IF d.ok
             THEN [raised |-> FALSE, value |-> d.text, error |-> NoError]
             ELSE [raised |-> TRUE, value |-> <<>>, error |-> unicodeDecodeError(d.reason)]
    ELSE LET d == codecs_decode(data, encoding_name)
         IN  IF d.ok
             THEN [raised |-> FALSE, value |-> d.text, error |-> NoError]
             ELSE [raised |-> TRUE, value |-> <<>>, error |-> decodeError(encoding_name, d.reason)]

(***************************************************************************)
(* Explored inputs.  A file is a header followed by at most MaxLines       *)
(* lines; the first two come from HeadLines, the lines behind the          *)
(* scanner's two-line window from TailLines.  A line without "\n" runs     *)
(* into the line that follows it.                                          *)
(***************************************************************************)
FilePaths == { <<"tests", "a.py">>, <<"b.py">> }

Headers ==
    {  <<>>,
       <<239, 187, 191>>,          \* UTF-8 BOM
       <<254, 255>>,               \* UTF-16 BE BOM
       <<255, 254>>,               \* UTF-16 LE BOM
       <<0, 0, 254, 255>>,         \* UTF-32 BE BOM
       <<255, 254, 0, 0>>,         \* UTF-32 LE BOM
       <<255>>,                    \* one byte of a BOM
       <<239, 187>>                \* two bytes of the UTF-8 BOM
    }

HeadLines ==
    {  <<10>>,   \* b'\n'
       <<35, 32, 99, 13, 10>>,   \* b'# c\r\n'
       <<120, 61, 49, 10>>,   \* b'x=1\n'
       <<35, 32, 99, 111, 100, 105, 110, 103, 58, 32, 117, 116, 102, 56, 10>>,   \* b'# coding: utf8\n'
       <<35, 99, 111, 100, 105, 110, 103, 61, 108, 97, 116, 105, 110, 45, 49, 10>>,   \* b'#coding=latin-1\n'
       <<32, 9, 12, 35, 32, 45, 42, 45, 32, 99, 111, 100, 105, 110, 103, 58, 32, 85, 84, 70, 95, 56, 95, 83, 73, 71, 32, 45, 42, 45, 13, 10>>,   \* b' \t\x0c# -*- coding: UTF_8_SIG -*-\r\n'
       <<35, 32, 99, 111, 13, 100, 105, 110, 103, 58, 32, 97, 115, 99, 105, 105, 10>>,   \* b'# co\rding: ascii\n'
       <<35, 32, 99, 111, 100, 105, 110, 103, 58, 32, 108, 97, 116, 105, 110, 45, 49>>,   \* b'# coding: latin-1'
       <<35, 233, 32, 99, 111, 100, 105, 110, 103, 58, 32, 97, 115, 99, 105, 105, 10>>,   \* b'#\xe9 coding: ascii\n'
       <<35, 32, 99, 111, 100, 105, 110, 103, 58, 32, 97, 115, 99, 105, 105, 32, 195, 169, 10>>,   \* b'# coding: ascii \xc3\xa9\n'
       <<35, 32, 118, 105, 109, 58, 32, 102, 105, 108, 101, 101, 110, 99, 111, 100, 105, 110, 103, 61, 107, 108, 105, 110, 103, 111, 110, 10>>,   \* b'# vim: fileencoding=klingon\n'
       <<115, 61, 39, 195, 169, 39, 10>>,   \* b"s='\xc3\xa9'\n"
       <<35, 32, 99, 111, 100, 105, 110, 103, 58, 32, 117, 116, 102, 45, 49, 54, 45, 108, 101, 10>>,   \* b'# coding: utf-16-le\n'
       <<35, 99, 111, 100, 105, 110, 103, 58, 117, 116, 102, 56, 45, 99, 111, 100, 101, 99>>    \* b'#coding:utf8-codec'
    }

TailLines ==
    {  <<35, 32, 99, 111, 100, 105, 110, 103, 58, 32, 108, 97, 116, 105, 110, 45, 49, 10>>,   \* b'# coding: latin-1\n'
       <<233, 10>>,   \* b'\xe9\n'
       <<121, 13, 10>>,   \* b'y\r\n'
       <<122>>    \* b'z'
    }

RECURSIVE Concat(_)
Concat(ss) == IF ss = <<>> THEN <<>> ELSE Head(ss) \o Concat(Tail(ss))

\* the line sequences of at most n lines
LineSeqs(n) ==
    UNION { { a \o b : a \in [1..Min(k, ScanLineLimit) -> HeadLines],
                       b \in [1..(k - Min(k, ScanLineLimit)) -> TailLines] }
            : k \in 0..n }

Files == { h \o Concat(ls) : h \in Headers, ls \in LineSeqs(MaxLines) }

\* the encoding names given to the pure functions
NameAlphabet == {117, 116, 102, 56, 45, 95, 85}       \* u t f 8 - _ U

NameSamples ==
    {  <<99, 111, 100, 101, 99>>,   \* b'codec'
       <<117, 116, 102, 45, 56>>,   \* b'utf-8'
       <<85, 84, 70, 95, 56, 95, 83, 73, 71>>,   \* b'UTF_8_SIG'
       <<117, 116, 102, 56, 45, 99, 111, 100, 101, 99>>,   \* b'utf8-codec'
       <<83, 104, 105, 102, 116, 45, 74, 73, 83>>,   \* b'Shift-JIS'
       <<108, 97, 116, 105, 110, 45, 49>>,   \* b'latin-1'
       <<117, 116, 102, 45, 49, 54, 45, 108, 101>>,   \* b'utf-16-le'
       <<97, 115, 99, 105, 105>>,   \* b'ascii'
       <<107, 108, 105, 110, 103, 111, 110>>,   \* b'klingon'
       <<76, 97, 116, 105, 110, 32, 49>>,   \* b'Latin 1'
       <<73, 83, 79, 95, 56, 56, 53, 57, 45, 49>>,   \* b'ISO_8859-1'
       <<117, 116, 102, 45, 49, 54>>,   \* b'utf-16'
       <<117, 115, 45, 97, 115, 99, 105, 105>>,   \* b'us-ascii'
       <<98, 105, 110, 97, 114, 121>>    \* b'binary'
    }

Names ==
    NameSamples \cup { v[2] : v \in ENCODING_MAP_ITEMS }
        \cup UNION { [1..k -> NameAlphabet] : k \in 0..MaxNameLen }

(***************************************************************************)
(* State.  main(): file_path and the bytes of the file, the position in    *)
(* main (pc), the locals has_utf8_bom, comment_enc, encoding_name and      *)
(* text, and the exception caught (error).  scan_pos and scan_lines keep   *)
(* what detectEncodingFromComments did to the stream: the file position    *)
(* it reached and the results of its readAsciiLine calls.                  *)
(* The p_ variables are the arguments and results of direct calls of       *)
(* normalizeEncoding and resolveFinalEncoding.                             *)
(***************************************************************************)
VARIABLES file_path, data, pc, has_utf8_bom, comment_enc, scan_pos, scan_lines,
          encoding_name, text, error,
          p_pc, p_raw, p_bom, p_once, p_twice, p_res

mainVars == <<file_path, data, pc, has_utf8_bom, comment_enc, scan_pos, scan_lines,
              encoding_name, text, error>>
pureVars == <<p_pc, p_raw, p_bom, p_once, p_twice, p_res>>
vars == <<mainVars, pureVars>>

NoResult == [raised |-> FALSE, value |-> <<>>, error |-> NoError]

MainIdle ==
    /\ file_path = <<"b.py">>
    /\ data = <<>>
    /\ pc = "idle"
    /\ has_utf8_bom = FALSE
    /\ comment_enc = <<>>
    /\ scan_pos = 0
    /\ scan_lines = <<>>
    /\ encoding_name = <<>>
    /\ text = <<>>
    /\ error = NoError

PureIdle ==
    /\ p_pc = "idle"
    /\ p_raw = <<>>
    /\ p_bom = FALSE
    /\ p_once = <<>>
    /\ p_twice = <<>>
    /\ p_res = NoResult

\* main() is entered with a path to a file
Init ==
    /\ file_path \in FilePaths
    /\ data \in Files
    /\ pc = "start"
    /\ has_utf8_bom = FALSE
    /\ comment_enc = <<>>
    /\ scan_pos = 0
    /\ scan_lines = <<>>
    /\ encoding_name = <<>>
    /\ text = <<>>
    /\ error = NoError
    /\ PureIdle

\* has_utf8_bom = Grun4py.detectUTF8BOM(file_path)
DetectUTF8BOM ==
    /\ pc = "start"
    /\ LET r == detectUTF8BOM(file_path, data)
       IN  /\ has_utf8_bom' = r.value
           /\ error' = r.error
           /\ pc' = IF r.raised THEN "failed" ELSE "bom_checked"
    /\ UNCHANGED <<file_path, data, comment_enc, scan_pos, scan_lines, encoding_name, text>>
    /\ UNCHANGED pureVars

\* comment_enc = Grun4py.detectEncodingFromComments(file_path, has_utf8_bom)
DetectEncodingFromComments ==
    /\ pc = "bom_checked"
    /\ LET r == detectEncodingFromComments(data, has_utf8_bom)
       IN  /\ comment_enc' = r.value
           /\ scan_pos' = r.pos
           /\ scan_lines' = r.lines
    /\ pc' = "scanned"
    /\ UNCHANGED <<file_path, data, has_utf8_bom, encoding_name, text, error>>
    /\ UNCHANGED pureVars

\* return Grun4py.resolveFinalEncoding(file_path, has_utf8_bom, comment_enc)
ResolveFinalEncoding ==
    /\ pc = "scanned"
    /\ LET r == resolveFinalEncoding(file_path, has_utf8_bom, comment_enc)
       IN  /\ encoding_name' = r.value
           /\ error' = r.error
           /\ pc' = IF r.raised THEN "failed" ELSE "resolved"
    /\ UNCHANGED <<file_path, data, has_utf8_bom, comment_enc, scan_pos, scan_lines, text>>
    /\ UNCHANGED pureVars

\* text = Grun4py.readFileWithEncoding(file_path, encoding_name)
ReadFileWithEncoding ==
    /\ pc = "resolved"
    /\ LET r == readFileWithEncoding(data, encoding_name)
       IN  /\ text' = r.value
           /\ error' = r.error
           /\ pc' = IF r.raised THEN "failed" ELSE "decoded"
    /\ UNCHANGED <<file_path, data, has_utf8_bom, comment_enc, scan_pos, scan_lines, encoding_name>>
    /\ UNCHANGED pureVars

Next ==
    \/ DetectUTF8BOM
    \/ DetectEncodingFromComments
    \/ ResolveFinalEncoding
    \/ ReadFileWithEncoding

Spec == Init /\ [][Next]_vars

(***************************************************************************)
(* Direct calls of the pure functions on generated names.                  *)
(***************************************************************************)
InitPure ==
    /\ MainIdle
    /\ p_pc = "input"
    /\ p_raw \in Names
    /\ p_bom \in BOOLEAN
    /\ p_once = <<>>
    /\ p_twice = <<>>
    /\ p_res = NoResult

\* p_once = normalizeEncoding(p_raw)
CallNormalize ==
    /\ p_pc = "input"
    /\ p_once' = normalizeEncoding(p_raw)
    /\ p_pc' = "normalized"
    /\ UNCHANGED <<p_raw, p_bom, p_twice, p_res>>
    /\ UNCHANGED mainVars

\* p_twice = normalizeEncoding(p_once)
CallNormalizeAgain ==
    /\ p_pc = "normalized"
    /\ p_twice' = normalizeEncoding(p_once)
    /\ p_pc' = "renormalized"
    /\ UNCHANGED <<p_raw, p_bom, p_once, p_res>>
    /\ UNCHANGED mainVars

\* p_res = resolveFinalEncoding(file_path, p_bom, p_raw)
CallResolve ==
    /\ p_pc = "input"
    /\ p_res' = resolveFinalEncoding(file_path, p_bom, p_raw)
    /\ p_pc' = "resolved"
    /\ UNCHANGED <<p_raw, p_bom, p_once, p_twice>>
    /\ UNCHANGED mainVars

NextPure ==
    \/ CallNormalize
    \/ CallNormalizeAgain
    \/ CallResolve

SpecPure == InitPure /\ [][NextPure]_vars

(***************************************************************************)
(* Properties.  The lines of a file are stated here on the bytes of the    *)
(* file, independently of the scanner: the logical lines are the runs      *)
(* between "\n" bytes, counted from the first byte behind a UTF-8 BOM.     *)
(***************************************************************************)
BomFmt == "Invalid BOM encoding for '{name}': {msg}"
ConflictFmt == "Encoding problem for '{name}': {UTF8} BOM"
DecodeFmt == "Failed to decode file with encoding '{encoding_name}': {ex}"
UnicodeFmt == "'{encoding}' codec can't decode byte: {reason}"

\* detectUTF8BOM has returned or raised
BomChecked == pc \in {"bom_checked", "scanned", "resolved", "decoded", "failed"}
\* detectEncodingFromComments has returned
ScanDone == pc \in {"scanned", "resolved", "decoded"} \/ (pc = "failed" /\ error.fmt # BomFmt)
\* resolveFinalEncoding has returned or raised
ResolveDone == pc \in {"resolved", "decoded"} \/ (pc = "failed" /\ error.fmt # BomFmt)
\* readFileWithEncoding has returned or raised
ReadDone == pc = "decoded" \/ (pc = "failed" /\ error.fmt \in {DecodeFmt, UnicodeFmt})

NotLF == (0..255) \ {10}
HasBomBytes == StartsWith(data, <<239, 187, 191>>)
SkipOffset == IF HasBomBytes THEN 3 ELSE 0
\* the number of bytes in front of the "\n" that ends the line starting at
\* offset st (Len(data) when no "\n" follows)
LineEnd(st) == SkipWhile(data, st + 1, NotLF) - 1
RawLineAt(st) == SubSeq(data, st + 1, LineEnd(st))
Terminated(st) == LineEnd(st) < Len(data)
Start2 == LineEnd(SkipOffset) + 1
Start3 == LineEnd(Start2) + 1
HasLine2 == Terminated(SkipOffset)
HasLine3 == HasLine2 /\ Terminated(Start2)
\* the first three logical lines without their "\r" bytes
Line1 == Remove(RawLineAt(SkipOffset), 13)
Line2 == Remove(RawLineAt(Start2), 13)
Line3 == Remove(RawLineAt(Start3), 13)
\* the offset behind the "\n" that ends the second line
EndOfLine2 == IF HasLine3 THEN Start3 ELSE Len(data)
HasNonAscii(s) == \E i \in 1..Len(s) : s[i] > 127
Declares(line) == COMMENT_REGEX_match(line) /\ ENCODING_REGEX_group1(line) # <<>>

\* the key of the alias table for a raw name
AliasKey(raw) ==
    RemoveSuffix(Remove(Remove(Remove(Lower(raw), 95), 45), 32), <<99, 111, 100, 101, 99>>)
Utf8Keys == { k \in DOMAIN ENCODING_MAP : ENCODING_MAP[k] = <<117, 116, 102, 45, 56>> }

BomRejected(family) ==
    /\ pc = "failed"
    /\ error = [fmt |-> BomFmt, name |-> PathName(file_path), enc |-> <<>>, msg |-> family]
    /\ scan_lines = <<>> /\ scan_pos = 0 /\ comment_enc = <<>>
    /\ encoding_name = <<>> /\ text = <<>>

\* C1: a file starting with FE FF, FF FE, 00 00 FE FF or FF FE 00 00 fails
\* with the BOM error of that family whatever follows, and nothing is scanned,
\* resolved or decoded; FF FE 00 00 is UTF-32 LE and 00 00 FE FF is UTF-32 BE;
\* EF BB BF gives "UTF-8 BOM present", every other header gives false, both
\* without a BOM error.
C1_BomClassification ==
    BomChecked =>
        IF StartsWith(data, <<255, 254, 0, 0>>) THEN BomRejected("UTF-32 LE BOM")
        ELSE IF StartsWith(data, <<0, 0, 254, 255>>) THEN BomRejected("UTF-32 BE BOM")
        ELSE IF StartsWith(data, <<254, 255>>) THEN BomRejected("UTF-16 BE BOM")
        ELSE IF StartsWith(data, <<255, 254>>) THEN BomRejected("UTF-16 LE BOM")
        ELSE /\ has_utf8_bom = StartsWith(data, <<239, 187, 191>>)
             /\ error.fmt # BomFmt

\* a UTF-32 LE BOM followed by "# coding: utf8" has been rejected as UTF-32 LE
C1_Witness ==
    /\ pc = "failed"
    /\ StartsWith(data, <<255, 254, 0, 0, 35, 32, 99, 111, 100, 105, 110, 103, 58, 32, 117, 116, 102, 56, 10>>)
    /\ error.msg = "UTF-32 LE BOM"

\* C2: resolveFinalEncoding(bomPresent, declared) raises the conflict error
\* exactly when declared is not empty, bomPresent holds and declared fails the
\* UTF-8 equality check; otherwise it returns declared, or "utf-8" when
\* declared is empty, and the result is never empty.
C2_ResolveContract ==
    p_pc = "resolved" =>
        /\ p_res.raised <=> (p_raw # <<>> /\ p_bom /\ ~isUTF8(p_raw))
        /\ p_res.raised => p_res.error = [fmt |-> ConflictFmt, name |-> PathName(file_path),
                                          enc |-> <<117, 116, 102, 45, 56>>, msg |-> ""]
        /\ ~p_res.raised =>
              /\ p_res.value = IF p_raw # <<>> THEN p_raw ELSE <<117, 116, 102, 45, 56>>
              /\ p_res.value # <<>>
              /\ p_res.error = NoError

\* a UTF-8 BOM with no declaration has resolved to "utf-8"
C2_Witness ==
    /\ p_pc = "resolved"
    /\ p_bom /\ p_raw = <<>>
    /\ ~p_res.raised /\ p_res.value = <<117, 116, 102, 45, 56>>

\* C3: when the file starts with EF BB BF and the first line behind the BOM
\* is a comment declaring an alias of UTF-8 in any spelling, the scan starts
\* at offset 3, the declared token is normalised to "utf-8" and
\* detectEncoding returns "utf-8" without a conflict.
C3_BomWithUtf8Alias ==
    (HasBomBytes /\ Declares(Line1) /\ AliasKey(ENCODING_REGEX_group1(Line1)) \in Utf8Keys) =>
        /\ ScanDone /\ ~HasNonAscii(Line1) =>
              /\ scan_lines[1].line = Line1
              /\ comment_enc = <<117, 116, 102, 45, 56>>
        /\ pc \in {"resolved", "decoded", "failed"} =>
              /\ error.fmt \notin {BomFmt, ConflictFmt}
              /\ encoding_name = <<117, 116, 102, 45, 56>>

\* a file with a BOM and the first line " \t\f# -*- coding: UTF_8_SIG -*-\r\n" is decoded as "utf-8"
C3_Witness ==
    /\ pc = "decoded"
    /\ StartsWith(data, <<239, 187, 191, 32, 9, 12, 35, 32, 45, 42, 45, 32, 99, 111, 100, 105, 110, 103, 58, 32, 85, 84, 70, 95, 56, 95, 83, 73, 71, 32, 45, 42, 45, 13, 10>>)
    /\ comment_enc = <<117, 116, 102, 45, 56>>
    /\ encoding_name = <<117, 116, 102, 45, 56>>

\* C4: the declaration scan never returns a name from the third or a later
\* line, nor from a line behind a line that is neither comment nor blank: a
\* statement on line 1 gives the empty result even with a declaration on
\* line 2, two comment or blank lines without declaration give the empty
\* result even with a declaration on line 3; without BOM the resolved
\* encoding is then "utf-8".
C4_OnlyFirstTwoLines ==
    /\ ScanDone =>
          /\ ~COMMENT_REGEX_match(Line1) => comment_enc = <<>>
          /\ (HasLine3 /\ ~Declares(Line1) /\ ~Declares(Line2)) => comment_enc = <<>>
          /\ comment_enc # <<>> =>
                /\ scan_pos <= EndOfLine2
                /\ \/ comment_enc = extractEncodingFromLine(Line1)
                   \/ /\ HasLine2 /\ COMMENT_REGEX_match(Line1)
                      /\ comment_enc = extractEncodingFromLine(Line2)
    /\ (ResolveDone /\ ~HasBomBytes /\ comment_enc = <<>>) =>
          (error.fmt # ConflictFmt /\ encoding_name = <<117, 116, 102, 45, 56>>)

\* a declaration on line 3 behind a blank line and a plain comment was not honoured
C4_Witness ==
    /\ pc = "resolved"
    /\ data = <<10>> \o <<35, 32, 99, 13, 10>>
                \o <<35, 32, 99, 111, 100, 105, 110, 103, 58, 32, 108, 97, 116, 105, 110, 45, 49, 10>>
    /\ comment_enc = <<>>
    /\ encoding_name = <<117, 116, 102, 45, 56>>

\* C5: normalizeEncoding is idempotent; the canonical names and the values
\* of the alias table are mapped to themselves, and a name whose key is not
\* in the table is returned unmodified.
C5_NormalizeIdempotent ==
    /\ p_pc = "renormalized" => p_twice = p_once
    /\ p_pc \in {"normalized", "renormalized"} =>
          /\ p_raw \in { v[2] : v \in ENCODING_MAP_ITEMS } => p_once = p_raw
          /\ AliasKey(p_raw) \notin DOMAIN ENCODING_MAP => p_once = p_raw
          /\ AliasKey(p_raw) \in DOMAIN ENCODING_MAP /\ p_raw # <<>> => p_once = ENCODING_MAP[AliasKey(p_raw)]

\* "Shift-JIS" went through unmodified, twice
C5_Witness ==
    /\ p_pc = "renormalized"
    /\ p_raw = <<83, 104, 105, 102, 116, 45, 74, 73, 83>>
    /\ p_once = p_raw /\ p_twice = p_raw

\* C6: when the resolved encoding passes the UTF-8 equality check,
\* readFileWithEncoding returns the strict UTF-8 decoding of the whole byte
\* buffer with nothing removed or rewritten (the BOM stays as U+FEFF, "\r"
\* stays "\r"), and fails on an ill-formed sequence.
C6_Utf8DecodesWholeBuffer ==
    (ReadDone /\ isUTF8(encoding_name)) =>
        IF Utf8Decode(data).ok
        THEN pc = "decoded" /\ text = Utf8Decode(data).text
        ELSE pc = "failed"

\* C7: every failure carries the display name of the file, and a decode
\* failure is a decode error carrying the encoding name and the file name.
C7_ErrorsNameTheFile ==
    pc = "failed" =>
        /\ error.name = PathName(file_path)
        /\ ReadDone => (error.fmt = DecodeFmt /\ error.enc = encoding_name)

\* the line of the byte run raw (the bytes in front of a "\n") when only a
\* "\r" right before that "\n" is dropped
DropFinalCR(raw, terminated) ==
    IF terminated /\ Len(raw) > 0 /\ raw[Len(raw)] = 13
    THEN SubSeq(raw, 1, Len(raw) - 1)
    ELSE raw

\* C8: the line built by readAsciiLine is the run of bytes up to the next
\* "\n" in which a "\r" is dropped only right before that "\n"; any other
\* "\r" stays in the line.
C8_OnlyFinalCRDropped ==
    (ScanDone /\ ~scan_lines[1].none) =>
        scan_lines[1].line = DropFinalCR(RawLineAt(SkipOffset), Terminated(SkipOffset))

\* C8 as the code has it: the line built by readAsciiLine is the run of
\* bytes up to the next "\n" (or the end of the stream) without any of its
\* "\r" bytes, wherever they stand.
C8_EveryCRDropped ==
    ScanDone =>
        /\ ~scan_lines[1].none => scan_lines[1].line = Line1
        /\ (Len(scan_lines) >= 2 /\ ~scan_lines[2].none) => scan_lines[2].line = Line2

\* "# co\rding: ascii\n" was read as the line "# coding: ascii" and declares ascii
C8_Witness ==
    /\ pc = "scanned"
    /\ StartsWith(data, <<35, 32, 99, 111, 13, 100, 105, 110, 103, 58, 32, 97, 115, 99, 105, 105, 10>>)
    /\ scan_lines[1].line = <<35, 32, 99, 111, 100, 105, 110, 103, 58, 32, 97, 115, 99, 105, 105>>
    /\ comment_enc = <<97, 115, 99, 105, 105>>

\* the stream ended while readAsciiLine was forming a line
HitEndOfStream == \E k \in 1..Len(scan_lines) : scan_lines[k].eof
\* the line that has no "\n": the first when the first has none, else the second
LastLine == IF HasLine2 THEN Line2 ELSE Line1

\* C9: when the stream ends while the first or second line is being formed,
\* the scan returns the empty result whatever the bytes of that line are.
C9_EndOfStreamGivesNothing ==
    (ScanDone /\ HitEndOfStream) => comment_enc = <<>>

\* C9 as the code has it: when the stream ends while the first or second
\* line is being formed, the bytes read so far are the line and it is
\* examined like a terminated line: a declaration on it is returned.
C9_EndOfStreamEndsTheLine ==
    (ScanDone /\ HitEndOfStream) =>
        /\ ~HasLine3
        /\ comment_enc = IF COMMENT_REGEX_match(LastLine)
                         THEN extractEncodingFromLine(LastLine)
                         ELSE <<>>

\* an unterminated second line "# coding: latin-1" gave latin-1
C9_Witness ==
    /\ pc = "scanned"
    /\ data = <<10>> \o <<35, 32, 99, 111, 100, 105, 110, 103, 58, 32, 108, 97, 116, 105, 110, 45, 49>>
    /\ Len(scan_lines) = 2 /\ scan_lines[2].eof
    /\ comment_enc = <<108, 97, 116, 105, 110, 45, 49>>

\* the bytes the scanner has read
ScannedBytes == SubSeq(data, SkipOffset + 1, scan_pos)

\* C10: a byte above 0x7F read while a line is formed aborts the scan with
\* the empty result and no error, before or behind a declaration on that
\* line; the scanner reads no byte behind the "\n" of the second line and no
\* byte behind the line on which it stopped.
C10_NonAsciiAbortsScan ==
    /\ pc = "scanned" => error = NoError
    /\ ScanDone =>
          /\ HasNonAscii(ScannedBytes) => comment_enc = <<>>
          /\ HasNonAscii(Line1) => comment_enc = <<>>
          /\ (HasLine2 /\ ~Declares(Line1) /\ HasNonAscii(Line2)) => comment_enc = <<>>
          /\ \A i \in (SkipOffset + 1)..(scan_pos - 1) : data[i] <= 127
          /\ SkipOffset <= scan_pos /\ scan_pos <= EndOfLine2
          /\ \/ scan_pos = Len(data)
             \/ data[scan_pos] = 10
             \/ data[scan_pos] > 127

\* "# coding: ascii \xc3\xa9\n" gave no encoding; the scan stopped on the byte C3
C10_Witness ==
    /\ pc = "scanned"
    /\ StartsWith(data, <<35, 32, 99, 111, 100, 105, 110, 103, 58, 32, 97, 115, 99, 105, 105, 32, 195, 169, 10>>)
    /\ comment_enc = <<>>
    /\ scan_pos = 17
    /\ error = NoError

====
